---- MODULE Spec2Model ----
(***************************************************************************)
(* Model of serper_agent_scheduler.py: the two-step football match search  *)
(* (find_next_matches, then find_where_to_watch), with the search worker   *)
(* pool, the scrape worker pool, the agent call, the recovery of JSON from *)
(* the text of the agent and the files the run writes.                          *)
(***************************************************************************)
EXTENDS Integers, Sequences, FiniteSets, TLC

\* ---------------------------------------------------------------- bounds
\* Largest roster (number of teams in teams.json).
MaxTeams == 2
\* Largest number of organic results a search response carries.
MaxLinks == 4
\* Longest text (in tokens) extract_json_from_response is called on by itself.
MaxTextLen == 5
\* Longest final_output (in tokens) of an agent result handled by itself.
MaxOutputLen == 4

\* ------------------------------------------------------- program constants
\* links[:3] and ThreadPoolExecutor(max_workers=3) of the scrape fan-out.
ScrapeWidth == 3
\* ThreadPoolExecutor(max_workers=1) of the calendar and watch searches.
SearchWidth == 1

None == "None"
NoError == <<>>

Min(a, b) == IF a < b THEN a ELSE b

\* ------------------------------------------------------------ JSON values
\* A text is a sequence of tokens.  "{", "}", "[", "]" are the delimiters,
\* FENCE (three backquotes) a Markdown fence, "json" the language tag, " " whitespace, "w" a
\* word of prose.  A member token stands for the members of an object:
\*   nm:X     "next_match": {"opponent": "X", "datetime_brt": "d1"}
\*   nm:Y     "next_match": {"opponent": "Y", "datetime_brt": "d2"}
\*   nm:noopp "next_match": {"datetime_brt": "d1"}
\*   nm:null  "next_match": null
\*   nm:str   "next_match": "soon"
\*   ch:2     "channels": [{"name": "Globo", ...}, {"name": "Premiere", ...}]
\*   ch:0     "channels": []
\*   other    "foo": 1
\* and a number token stands for a JSON number.  DEEP_OPEN stands for a run
\* of more opening brackets than the interpreter allows nested calls (the
\* recursion limit), DEEP_CLOSE for the run of brackets closing them.
FENCE == "fence"
DEEP_OPEN == "[["
DEEP_CLOSE == "]]"
MemberTokens == {"nm:X", "nm:Y", "nm:noopp", "nm:null", "nm:str", "ch:2", "ch:0", "other"}
NumTokens == {"0", "7"}

JSONDecodeError == [type |-> "error", member |-> "", inner |-> ""]
\* json.loads raised RecursionError, which is not a JSONDecodeError.
RecursionError == [type |-> "raise", member |-> "RecursionError", inner |-> ""]

NoWs(s) == SelectSeq(s, LAMBDA t : t # " ")

\* Whether the scanner of json.loads descends through a deep run of opening
\* brackets: the text starts, after opening brackets, with DEEP_OPEN.
RECURSIVE StartsDeep(_)
StartsDeep(t) ==
  /\ t # <<>>
  /\ \/ Head(t) = DEEP_OPEN
     \/ Head(t) = "[" /\ StartsDeep(Tail(t))

\* json.loads on a token sequence: the value, JSONDecodeError when it raises
\* that, RecursionError when the nesting exceeds the recursion limit (the
\* scanner descends before it has seen the end of the text).
RECURSIVE json_loads(_)
json_loads(s) ==
  LET t == NoWs(s) IN
  IF StartsDeep(t) THEN RecursionError
  ELSE IF Len(t) = 1 /\ t[1] \in NumTokens
    THEN [type |-> "num", member |-> t[1], inner |-> ""]
  ELSE IF t = <<"{", "}">>
    THEN [type |-> "dict", member |-> "", inner |-> ""]
  ELSE IF Len(t) = 3 /\ t[1] = "{" /\ t[3] = "}" /\ t[2] \in MemberTokens
    THEN [type |-> "dict", member |-> t[2], inner |-> ""]
  ELSE IF t = <<"[", "]">>
    THEN [type |-> "list", member |-> "", inner |-> ""]
  ELSE IF Len(t) >= 3 /\ t[1] = "[" /\ t[Len(t)] = "]"
    THEN LET v == json_loads(SubSeq(t, 2, Len(t) - 1)) IN
         IF v.type = "error" THEN JSONDecodeError
         ELSE [type |-> "list", member |-> v.member, inner |-> v.type]
  ELSE JSONDecodeError

\* Python truth value of a parsed JSON value.
Truthy(v) ==
  \/ v.type = "dict" /\ v.member # ""
  \/ v.type = "list" /\ v.inner # ""
  \/ v.type = "num" /\ v.member # "0"

isinstance_dict(v) == v.type = "dict"

\* A membership test true of every dict.
HasKey_AnyDict(v, key) == v.type = "dict"

\* "next_match" in v, "channels" in v
HasKey(v, key) ==
  /\ v.type = "dict"
  /\ \/ key = "next_match" /\ v.member \in {"nm:X", "nm:Y", "nm:noopp", "nm:null", "nm:str"}
     \/ key = "channels" /\ v.member \in {"ch:2", "ch:0"}

\* v["next_match"]: kind is "null", "str" or "dict".
NextMatchValue(v) ==
  CASE v.member = "nm:X" -> [kind |-> "dict", opponent |-> "X", datetime_brt |-> "d1"]
    [] v.member = "nm:Y" -> [kind |-> "dict", opponent |-> "Y", datetime_brt |-> "d2"]
    [] v.member = "nm:noopp" -> [kind |-> "dict", opponent |-> None, datetime_brt |-> "d1"]
    [] v.member = "nm:str" -> [kind |-> "str", opponent |-> None, datetime_brt |-> None]
    [] OTHER -> [kind |-> "null", opponent |-> None, datetime_brt |-> None]

\* v["channels"]
ChannelsValue(v) == IF v.member = "ch:2" THEN <<"Globo", "Premiere">> ELSE <<>>

\* ------------------------------------------------ extract_json_from_response
\* Number of characters of a token (the key of matches.sort(key=len)).
TokLen(t) ==
  CASE t \in {"{", "}", "[", "]", " ", "0", "7"} -> 1
    [] t = FENCE -> 3
    [] t = "json" -> 4
    [] t = "w" -> 5
    [] t \in {DEEP_OPEN, DEEP_CLOSE} -> 1001
    [] OTHER -> 30

RECURSIVE TextLen(_)
TextLen(s) == IF s = <<>> THEN 0 ELSE TokLen(Head(s)) + TextLen(Tail(s))

\* Positions p in from..Len(s) with s[p] = t.
Positions(s, t, from) == {p \in from..Len(s) : s[p] = t}

SetMin(S) == CHOOSE x \in S : \A y \in S : x <= y
SetMax(S) == CHOOSE x \in S : \A y \in S : x >= y

RECURSIVE LStrip(_)
LStrip(s) == IF s # <<>> /\ Head(s) = " " THEN LStrip(Tail(s)) ELSE s
RECURSIVE RStrip(_)
RStrip(s) == IF s # <<>> /\ s[Len(s)] = " " THEN RStrip(SubSeq(s, 1, Len(s) - 1)) ELSE s

\* re.findall(code_block_pattern, text): the inner texts of the fenced
\* blocks, in the order found.  A block runs from a fence, an optional
\* json tag and whitespace to the nearest following fence; the whitespace
\* before the closing fence is not part of the inner text.
RECURSIVE CodeBlocks(_, _)
CodeBlocks(s, from) ==
  LET opens == Positions(s, FENCE, from) IN
  IF opens = {} THEN <<>>
  ELSE LET i == SetMin(opens)
           c == IF i + 1 <= Len(s) /\ s[i + 1] = "json" THEN i + 2 ELSE i + 1
           closes == Positions(s, FENCE, c)
       IN IF closes = {} THEN <<>>
          ELSE LET j == SetMin(closes) IN
               <<RStrip(LStrip(SubSeq(s, c, j - 1)))>> \o CodeBlocks(s, j + 1)

\* re.findall(json_pattern, text): from an opening delimiter
\* to the LAST matching closing delimiter of the text (greedy, not
\* nesting-aware), the scan resuming after each match.
RECURSIVE BraceMatches(_, _)
BraceMatches(s, from) ==
  LET CloseOf(i) == IF s[i] = "{" THEN Positions(s, "}", i + 1)
                    ELSE IF s[i] \in {"[", DEEP_OPEN}
                      THEN Positions(s, "]", i + 1) \cup Positions(s, DEEP_CLOSE, i + 1)
                    ELSE {}
      starts == {i \in from..Len(s) : CloseOf(i) # {}}
  IN IF starts = {} THEN <<>>
     ELSE LET i == SetMin(starts)
              j == SetMax(CloseOf(i))
          IN <<SubSeq(s, i, j)>> \o BraceMatches(s, j + 1)

\* matches.sort(key=len, reverse=True): stable, longest first.
RECURSIVE SortByLenDesc(_)
SortByLenDesc(ms) ==
  IF ms = <<>> THEN <<>>
  ELSE LET top == SetMax({TextLen(ms[k]) : k \in 1..Len(ms)})
           k0 == SetMin({k \in 1..Len(ms) : TextLen(ms[k]) = top})
           rest == [k \in 1..(Len(ms) - 1) |-> IF k < k0 THEN ms[k] ELSE ms[k + 1]]
       IN <<ms[k0]>> \o SortByLenDesc(rest)

\* The loop "try: return json.loads(potential_json) / except
\* json.JSONDecodeError: continue": the value of the first candidate
\* json.loads accepts, RecursionError when json.loads raises that on a
\* candidate reached before, JSONDecodeError when the loop ends.
RECURSIVE FirstParsed(_)
FirstParsed(ms) ==
  IF ms = <<>> THEN JSONDecodeError
  ELSE IF json_loads(Head(ms)).type # "error" THEN json_loads(Head(ms))
  ELSE FirstParsed(Tail(ms))

\* The value extract_json_from_response returns; ParsedNone stands for None,
\* RecursionError for the exception leaving the function.
ParsedNone == [type |-> "none", member |-> "", inner |-> ""]

extract_json_from_response(text) ==
  IF text = <<>> THEN ParsedNone
  ELSE IF json_loads(text).type # "error" THEN json_loads(text)
  ELSE IF FirstParsed(CodeBlocks(text, 1)).type # "error"
    THEN FirstParsed(CodeBlocks(text, 1))
  ELSE IF FirstParsed(SortByLenDesc(BraceMatches(text, 1))).type # "error"
    THEN FirstParsed(SortByLenDesc(BraceMatches(text, 1)))
  ELSE ParsedNone

\* ------------------------------------------------------------ the search
\* Outcomes of requests.post + raise_for_status + response.json():
\*   "ok"         2xx and a JSON body
\*   "transport"  requests.post raises a RequestException
\*   "http"       raise_for_status raises HTTPError (a RequestException)
\*   "unexpected" any other Exception
NetOutcomes == {"ok", "transport", "http", "unexpected"}

\* Parsed 2xx bodies: an object with k organic results, a JSON array, a
\* JSON number.
NoBody == [type |-> "none", organic |-> 0]
LinkCounts == {1, MaxLinks}
Bodies == {[type |-> "dict", organic |-> k] : k \in LinkCounts}
            \cup {[type |-> "list", organic |-> 0], [type |-> "num", organic |-> 0]}

ErrNoKey == "SERPER_API_KEY environment variable not set."
ErrRequest == "Error during Serper API request"
ErrUnexpected == "An unexpected error occurred"

\* search_serper_api without the check of the key: the request is made
\* whether or not SERPER_API_KEY is set.
search_serper_api_NoKeyCheck(key, net, body) ==
  IF net = "ok"
    THEN [raised |-> FALSE, error |-> None, body |-> body, net_calls |-> 1]
  ELSE IF net \in {"transport", "http"}
    THEN [raised |-> FALSE, error |-> ErrRequest, body |-> NoBody, net_calls |-> 1]
  ELSE [raised |-> FALSE, error |-> ErrUnexpected, body |-> NoBody, net_calls |-> 1]

\* search_serper_api: whether it raises, the returned dict ({"error": ...}
\* or the parsed body) and the number of network calls made.  key is the
\* SERPER_API_KEY check.
search_serper_api(key, net, body) ==
  IF ~key
    THEN [raised |-> FALSE, error |-> ErrNoKey, body |-> NoBody, net_calls |-> 0]
  ELSE IF net = "ok"
    THEN [raised |-> FALSE, error |-> None, body |-> body, net_calls |-> 1]
  ELSE IF net \in {"transport", "http"}
    THEN [raised |-> FALSE, error |-> ErrRequest, body |-> NoBody, net_calls |-> 1]
  ELSE [raised |-> FALSE, error |-> ErrUnexpected, body |-> NoBody, net_calls |-> 1]

\* The test whether the key error is in the result search_serper_api
\* returned: a TypeError on a number body, membership in the array on an
\* array body.
ErrorInResult(result) ==
  IF result.error # None THEN "yes"
  ELSE IF result.body.type = "num" THEN "raises"
  ELSE "no"

\* search_for_team_calendar / search_where_to_watch: what the future holds.
\* subject is the team name or the pair of names.
SearchEnvelope(subject, result) ==
  IF result.raised \/ ErrorInResult(result) = "raises"
    THEN [raised |-> TRUE, subject |-> subject, error |-> None, data |-> NoBody]
  ELSE IF ErrorInResult(result) = "yes"
    THEN [raised |-> FALSE, subject |-> subject, error |-> result.error, data |-> NoBody]
  ELSE [raised |-> FALSE, subject |-> subject, error |-> None, data |-> result.body]

search_for_team_calendar(team_name, key, net, body) ==
  SearchEnvelope(<<team_name>>, search_serper_api(key, net, body))

search_where_to_watch(team1, team2, key, net, body) ==
  SearchEnvelope(<<team1, team2>>, search_serper_api(key, net, body))

\* setup_agent without the check of OPENAI_API_KEY.
setup_agent_NoCheck(openai_key) == TRUE

\* setup_agent: TRUE when it returns an agent, FALSE when it calls exit(1).
setup_agent(openai_key) == openai_key

\* scrape_url: the outcome of the future for a response kind.  "page" is a JSON
\* body, "undecodable" a body json.loads rejects (swallowed into {}), and
\* "refused" a connection error, which the function lets propagate.
ScrapeOutcomes == {"page", "refused"}
scrape_url(url, outcome) ==
  IF outcome = "page" THEN [raised |-> FALSE, url |-> url, content |-> "page"]
  ELSE IF outcome = "undecodable" THEN [raised |-> FALSE, url |-> url, content |-> "{}"]
  ELSE [raised |-> TRUE, url |-> url, content |-> None]

\* ------------------------------------------------------- the environment
\* teams.json: the roster of n teams in two series, the first two teams in
\* series A and the others in series B; odd teams are objects {name, image},
\* even teams are bare names.
TeamNames == <<"Flamengo", "Vasco", "Bahia", "Gremio">>

TeamObj(i) ==
  IF i % 2 = 1 THEN [kind |-> "dict", name |-> TeamNames[i], image |-> "img"]
  ELSE [kind |-> "str", name |-> TeamNames[i], image |-> None]

Roster(n) ==
  << [serie |-> "A", teams |-> [k \in 1..Min(n, 2) |-> TeamObj(k)]],
     [serie |-> "B", teams |-> [k \in 1..(n - Min(n, 2)) |-> TeamObj(k + 2)]] >>

RosterFiles ==
  {[state |-> "missing", data |-> <<>>], [state |-> "undecodable", data |-> <<>>]}
    \cup {[state |-> "ok", data |-> Roster(n)] : n \in 0..MaxTeams}

\* What Runner.run_sync gives for a calendar prompt: final_output texts
\* (the empty text is "no output"), or an exception.
CalendarTexts ==
  { <<"{", "nm:X", "}">>,
    <<"w", FENCE, "json", " ", "{", "nm:Y", "}", " ", FENCE, "w">>,
    <<"{", "nm:null", "}">>,
    <<"{", "nm:noopp", "}">>,
    <<"{", "nm:str", "}">>,
    <<"w", "{", "other", "}">>,
    <<"w">>,
    <<"w", FENCE, DEEP_OPEN, FENCE>>,
    <<>> }

\* What Runner.run_sync gives for a watch prompt.
WatchTexts ==
  { <<"{", "ch:2", "}">>,
    <<"w", FENCE, " ", "{", "ch:0", "}", FENCE>>,
    <<"w", "{", "other", "}", "w">>,
    <<"7">>,
    <<DEEP_OPEN, DEEP_CLOSE>>,
    <<>> }

EmptyMap == [x \in {} |-> <<>>]

VARIABLES
  env,                      \* os.getenv: which credentials are set
  teams_json,               \* the file teams.json
  files,                    \* the diagnostic and debug files written by the run
  match_results_json,       \* the artifact match_results.json and the writes of it
  pc,                       \* position of the main thread
  result,                   \* what fetch_and_process_football_matches returned
  teams_with_series,        \* find_next_matches
  cal_futures,              \* future_to_team and the state of each future
  next_matches,             \* dict team -> next match, in insertion order
  all_calendar_results,
  teams_lookup,             \* find_where_to_watch
  team_pairs,
  watch_futures,            \* future_to_pair and the state of each future
  processed_data_by_series,
  all_watch_results,
  final_processed_data,
  cur,                      \* index of the future the loop body works on
  scrape_futures,           \* futures of the scrape fan-out of the item
  scraped_list,             \* scraped_calendar_list / scraped_viewing_list
  log,                      \* per submitted item, the outcomes its loop body reached
  text,                     \* extract_json_from_response called on its own: the argument
  recovered,                \* and what the call gave
  extracted,                \* the handling of one agent result on its own: what it gave
  teams_json_before         \* teams.json as it was before another process rewrote it

vars == << env, teams_json, files, match_results_json, pc, result, teams_with_series, cal_futures,
           next_matches, all_calendar_results, teams_lookup, team_pairs,
           watch_futures, processed_data_by_series, all_watch_results,
           final_processed_data, cur, scrape_futures, scraped_list, log,
           text, recovered, extracted, teams_json_before >>

envVars == << env, teams_json >>
phase1Vars == << teams_with_series, cal_futures, next_matches, all_calendar_results >>
phase2Vars == << teams_lookup, team_pairs, watch_futures, processed_data_by_series,
                 all_watch_results, final_processed_data >>
itemVars == << cur, scrape_futures, scraped_list >>
recoverVars == << text, recovered, extracted, teams_json_before >>

NoScrape == [raised |-> FALSE, url |-> 0, content |-> None]
\* A submitted scrape: scrape_calls counts the calls made for the link.
RunningScrape == [state |-> "running", taken |-> FALSE, value |-> NoScrape,
                  scrape_calls |-> 1]
NoEnvelope == [raised |-> FALSE, subject |-> <<>>, error |-> None, data |-> NoBody]
\* A submitted search: the state of its future, whether as_completed has
\* yielded it, the value it holds, and the calls made so far for its item
\* (searches, network requests and what the network answered, scrapes, runs
\* of the agent).
QueuedFuture == [state |-> "queued", taken |-> FALSE, value |-> NoEnvelope,
                 search_calls |-> 0, net_calls |-> 0, net |-> "none",
                 scrape_calls |-> 0, agent_calls |-> 0]

NoResult == [kind |-> "unset", series |-> <<>>]
\* extract_json_from_response has not been called.
NotCalled == [type |-> "pending", member |-> "", inner |-> ""]
\* No agent result has been handled on its own.
NotExtracted == [phase |-> 0]
\* Nothing has rewritten teams.json since the run began.
NotEdited == [state |-> "unedited", data |-> <<>>]

Init ==
  /\ env \in [SERPER_API_KEY : BOOLEAN, OPENAI_API_KEY : BOOLEAN]
  /\ teams_json \in RosterFiles
  /\ files = {}
  /\ match_results_json = [attempts |-> 0, written |-> FALSE, series |-> <<>>]
  /\ pc = "start"
  /\ result = NoResult
  /\ teams_with_series = <<>>
  /\ cal_futures = <<>>
  /\ next_matches = <<>>
  /\ all_calendar_results = <<>>
  /\ teams_lookup = EmptyMap
  /\ team_pairs = <<>>
  /\ watch_futures = <<>>
  /\ processed_data_by_series = EmptyMap
  /\ all_watch_results = <<>>
  /\ final_processed_data = <<>>
  /\ cur = 0
  /\ scrape_futures = <<>>
  /\ scraped_list = <<>>
  /\ log = [cal |-> <<>>, watch |-> <<>>]
  /\ text = <<>>
  /\ recovered = NotCalled
  /\ extracted = NotExtracted
  /\ teams_json_before = NotEdited

\* ------------------------------------------------------- helpers on state
RECURSIVE Flatten(_)
Flatten(ss) == IF ss = <<>> THEN <<>> ELSE Head(ss) \o Flatten(Tail(ss))

\* lines 215-222: every team of every series, as {team: {name, image}, serie}.
TeamsWithSeries(series_data) ==
  Flatten([s \in 1..Len(series_data) |->
    [k \in 1..Len(series_data[s].teams) |->
      [team |-> [name |-> series_data[s].teams[k].name,
                 image |-> series_data[s].teams[k].image],
       serie |-> series_data[s].serie]]])

\* d[key] = value on a dict kept as a sequence of entries in insertion order.
DictSet(d, key, value) ==
  IF \E k \in 1..Len(d) : d[k].key = key
    THEN [k \in 1..Len(d) |-> IF d[k].key = key THEN [key |-> key, value |-> value] ELSE d[k]]
    ELSE Append(d, [key |-> key, value |-> value])

DictKeys(d) == {d[k].key : k \in 1..Len(d)}
DictGet(d, key) == (CHOOSE k \in 1..Len(d) : d[k].key = key)

\* A pool that starts a worker for every submitted call.
MayStart_NoWidth(futures, i, width) ==
  /\ i \in 1..Len(futures)
  /\ futures[i].state = "queued"

\* The worker pool runs the queued futures in submission order, at most
\* width at a time.
MayStart(futures, i, width) ==
  /\ i \in 1..Len(futures)
  /\ futures[i].state = "queued"
  /\ \A j \in 1..(i - 1) : futures[j].state # "queued"
  /\ Cardinality({j \in 1..Len(futures) : futures[j].state = "running"}) < width

\* as_completed never yielding a future whose call raised.
Completed_SkipRaised(futures) ==
  {i \in 1..Len(futures) :
     futures[i].state = "done" /\ ~futures[i].taken /\ ~futures[i].value.raised}

\* as_completed yielding a finished future again.
Completed_Reyield(futures) ==
  {i \in 1..Len(futures) : futures[i].state = "done"}

\* as_completed: the futures it can yield next.
Completed(futures) ==
  {i \in 1..Len(futures) : futures[i].state = "done" /\ ~futures[i].taken}

\* A loop over as_completed that ends with the first future yielded.
AllTaken_First(futures) == \E i \in 1..Len(futures) : futures[i].taken

\* The for loop over as_completed ends when every future has been yielded.
AllTaken(futures) == \A i \in 1..Len(futures) : futures[i].taken

AddOutcome(l, phase, i, o) ==
  [l EXCEPT ![phase][i].outcomes = Append(@, o)]

\* The loop body without the check of the search error.
SearchFailed_Never(search_result) == FALSE

\* What search_result.get("error") decides: skip the agent when truthy.
SearchFailed(search_result) == search_result.error # None

\* Every link scraped, without the slice [:3].
LinksToScrape_All(search_result) ==
  IF search_result.data.type # "dict" THEN -1
  ELSE search_result.data.organic

\* search_result["data"].get("organic", []) and links[:3]: the number of
\* links to scrape, or -1 when the .get raises (data is not a dict).
LinksToScrape(search_result) ==
  IF search_result.data.type # "dict" THEN -1
  ELSE Min(search_result.data.organic, ScrapeWidth)

\* ------------------------------------------------- find_next_matches
\* A load that goes on with the task whatever the state of the file, with the
\* teams of a default roster.
FNM_LoadRoster_GoesOn ==
  /\ UNCHANGED recoverVars
  /\ pc = "start"
  /\ teams_with_series' = TeamsWithSeries(Roster(1))
  /\ pc' = "fnm_setup"
  /\ UNCHANGED << envVars, files, match_results_json, result, cal_futures, next_matches,
                  all_calendar_results, phase2Vars, itemVars, log >>

\* lines 203-226: load teams.json and list the teams.
FNM_LoadRoster ==
  /\ UNCHANGED recoverVars
  /\ pc = "start"
  /\ IF teams_json.state # "ok"
       THEN /\ pc' = "fetch_step2"
            /\ UNCHANGED teams_with_series
       ELSE /\ teams_with_series' = TeamsWithSeries(teams_json.data)
            /\ pc' = IF teams_with_series' = <<>> THEN "fetch_step2" ELSE "fnm_setup"
  /\ UNCHANGED << envVars, files, match_results_json, result, cal_futures, next_matches,
                  all_calendar_results, phase2Vars, itemVars, log >>

\* lines 231-247: setup_agent, then submit one search per team.
FNM_Submit ==
  /\ UNCHANGED recoverVars
  /\ pc = "fnm_setup"
  /\ IF setup_agent(env.OPENAI_API_KEY)
       THEN /\ cal_futures' = [i \in 1..Len(teams_with_series) |-> QueuedFuture]
            /\ log' = [log EXCEPT !.cal = [i \in 1..Len(teams_with_series) |->
                          [subject |-> teams_with_series[i].team.name, outcomes |-> <<>>]]]
            /\ pc' = "fnm_loop"
       ELSE /\ pc' = "exited"
            /\ UNCHANGED << cal_futures, log >>
  /\ UNCHANGED << envVars, files, match_results_json, result, teams_with_series, next_matches,
                  all_calendar_results, phase2Vars, itemVars >>

\* The search worker takes the next queued calendar search.
CalWorkerStart(i) ==
  /\ UNCHANGED recoverVars
  /\ MayStart(cal_futures, i, SearchWidth)
  /\ cal_futures' = [cal_futures EXCEPT ![i].state = "running",
                                        ![i].search_calls = @ + 1]
  /\ UNCHANGED << envVars, files, match_results_json, pc, result, teams_with_series, next_matches,
                  all_calendar_results, phase2Vars, itemVars, log >>

\* search_for_team_calendar returns (or raises) in the worker.
CalWorkerFinish(i) ==
  /\ UNCHANGED recoverVars
  /\ i \in 1..Len(cal_futures)
  /\ cal_futures[i].state = "running"
  /\ \E net \in NetOutcomes, body \in Bodies :
       cal_futures' = [cal_futures EXCEPT
         ![i].state = "done",
         ![i].value = search_for_team_calendar(teams_with_series[i].team.name,
                                               env.SERPER_API_KEY, net, body),
         ![i].net_calls = @ + search_serper_api(env.SERPER_API_KEY, net, body).net_calls,
         ![i].net = IF search_serper_api(env.SERPER_API_KEY, net, body).net_calls = 0
                      THEN "none" ELSE net]
  /\ UNCHANGED << envVars, files, match_results_json, pc, result, teams_with_series, next_matches,
                  all_calendar_results, phase2Vars, itemVars, log >>

\* line 250: as_completed yields a finished future, or the loop ends.
FNM_NextFuture ==
  /\ UNCHANGED recoverVars
  /\ pc = "fnm_loop"
  /\ IF AllTaken(cal_futures)
       THEN /\ pc' = "fnm_save"
            /\ UNCHANGED << cur, cal_futures >>
       ELSE \E i \in Completed(cal_futures) :
              /\ cur' = i
              /\ cal_futures' = [cal_futures EXCEPT ![i].taken = TRUE]
              /\ pc' = "fnm_result"
  /\ UNCHANGED << envVars, files, match_results_json, result, teams_with_series, next_matches,
                  all_calendar_results, phase2Vars, scrape_futures, scraped_list, log >>

\* lines 254-272: the result of the search, and the scrape fan-out.
FNM_Result ==
  /\ UNCHANGED recoverVars
  /\ pc = "fnm_result"
  /\ LET search_result == cal_futures[cur].value
         n == LinksToScrape(search_result)
     IN IF search_result.raised
          THEN /\ log' = AddOutcome(log, "cal", cur, "exception")
               /\ pc' = "fnm_loop"
               /\ UNCHANGED << all_calendar_results, scrape_futures, cal_futures >>
        ELSE /\ all_calendar_results' = Append(all_calendar_results, search_result)
             /\ IF SearchFailed(search_result)
                  THEN /\ log' = AddOutcome(log, "cal", cur, "search_failed")
                       /\ pc' = "fnm_loop"
                       /\ UNCHANGED << scrape_futures, cal_futures >>
                ELSE IF n < 0
                  THEN /\ log' = AddOutcome(log, "cal", cur, "exception")
                       /\ pc' = "fnm_loop"
                       /\ UNCHANGED << scrape_futures, cal_futures >>
                ELSE /\ scrape_futures' = [j \in 1..n |-> RunningScrape]
                     /\ cal_futures' = [cal_futures EXCEPT ![cur].scrape_calls = @ + n]
                     /\ pc' = IF n = 0 THEN "fnm_agent" ELSE "fnm_scrape"
                     /\ UNCHANGED log
  /\ scraped_list' = <<>>
  /\ UNCHANGED << envVars, files, match_results_json, result, teams_with_series, next_matches,
                  phase2Vars, cur >>

\* A scrape worker that appends its result to the shared list itself.
ScrapeFinish_Appends(j) ==
  /\ UNCHANGED recoverVars
  /\ j \in 1..Len(scrape_futures)
  /\ scrape_futures[j].state = "running"
  /\ \E outcome \in ScrapeOutcomes :
       /\ scrape_futures' = [scrape_futures EXCEPT ![j].state = "done",
                                                   ![j].value = scrape_url(j, outcome)]
       /\ scraped_list' = Append(scraped_list, scrape_url(j, outcome))
  /\ UNCHANGED << envVars, files, match_results_json, pc, result, phase1Vars, phase2Vars, cur,
                  log >>

\* scrape_url returns (or raises) in a scrape worker.
ScrapeFinish(j) ==
  /\ UNCHANGED recoverVars
  /\ j \in 1..Len(scrape_futures)
  /\ scrape_futures[j].state = "running"
  /\ \E outcome \in ScrapeOutcomes :
       scrape_futures' = [scrape_futures EXCEPT ![j].state = "done",
                                                ![j].value = scrape_url(j, outcome)]
  /\ UNCHANGED << envVars, files, match_results_json, pc, result, phase1Vars, phase2Vars, cur,
                  scraped_list, log >>

\* The body of the inner as_completed loop: append the result of a
\* finished scrape, skip one that raised.
CollectScrape(j) ==
  /\ j \in Completed(scrape_futures)
  /\ scrape_futures' = [scrape_futures EXCEPT ![j].taken = TRUE]
  /\ scraped_list' = IF scrape_futures[j].value.raised THEN scraped_list
                     ELSE Append(scraped_list, scrape_futures[j].value)

\* lines 273-277
FNM_CollectScrape ==
  /\ UNCHANGED recoverVars
  /\ pc = "fnm_scrape"
  /\ \E j \in Completed(scrape_futures) : CollectScrape(j)
  /\ pc' = IF AllTaken(scrape_futures') THEN "fnm_agent" ELSE "fnm_scrape"
  /\ UNCHANGED << envVars, files, match_results_json, result, phase1Vars, phase2Vars, cur, log >>

\* What Runner.run_sync can do: raise, or return a final_output.
AgentResults(texts) ==
  {[raised |-> TRUE, final_output |-> <<>>]}
    \cup {[raised |-> FALSE, final_output |-> t] : t \in texts}

NoneMatch == [isnone |-> TRUE, opponent |-> None, datetime_brt |-> None]

\* lines 315-344: what the loop body does with the result of the agent.
\*   outcome  the branch reached
\*   store    whether next_matches[team_name] is assigned, and to what
\*   dump     whether calendar_error_<team>.txt is written
CalendarStep(agent_result) ==
  LET parsed == extract_json_from_response(agent_result.final_output)
      nm == NextMatchValue(parsed)
  IN
  IF agent_result.raised
    THEN [outcome |-> "exception", store |-> FALSE, info |-> NoneMatch, dump |-> FALSE]
  ELSE IF agent_result.final_output = <<>>
    THEN [outcome |-> "no_output", store |-> FALSE, info |-> NoneMatch, dump |-> FALSE]
  ELSE IF parsed = RecursionError
    THEN [outcome |-> "exception", store |-> FALSE, info |-> NoneMatch, dump |-> FALSE]
  ELSE IF Truthy(parsed) /\ isinstance_dict(parsed) /\ HasKey(parsed, "next_match")
    THEN IF nm.kind = "null"
           THEN [outcome |-> "success", store |-> TRUE, info |-> NoneMatch, dump |-> FALSE]
         ELSE IF nm.kind = "str"
           THEN [outcome |-> "exception", store |-> FALSE, info |-> NoneMatch, dump |-> FALSE]
         ELSE [outcome |-> "success", store |-> TRUE,
               info |-> [isnone |-> FALSE, opponent |-> nm.opponent,
                         datetime_brt |-> nm.datetime_brt],
               dump |-> FALSE]
  ELSE [outcome |-> "malformed_output", store |-> FALSE, info |-> NoneMatch, dump |-> TRUE]

\* lines 279-347: the prompt, the one call of the agent, and its result.
\* written: whether the diagnostic file could be opened and written.
FNM_RunAgent ==
  /\ UNCHANGED recoverVars
  /\ pc = "fnm_agent"
  /\ \E agent_result \in AgentResults(CalendarTexts), written \in BOOLEAN :
       LET step == CalendarStep(agent_result)
           team_name == teams_with_series[cur].team.name
           l2 == AddOutcome(log, "cal", cur, step.outcome)
       IN /\ next_matches' = IF step.store THEN DictSet(next_matches, team_name, step.info)
                             ELSE next_matches
          /\ files' = IF step.dump /\ written
                        THEN files \cup {[name |-> <<"calendar_error", team_name>>,
                                          text |-> agent_result.final_output]}
                        ELSE files
          /\ log' = IF step.dump /\ ~written THEN AddOutcome(l2, "cal", cur, "exception")
                    ELSE l2
  /\ cal_futures' = [cal_futures EXCEPT ![cur].agent_calls = @ + 1]
  /\ pc' = "fnm_loop"
  /\ scrape_futures' = <<>>
  /\ scraped_list' = <<>>
  /\ UNCHANGED << envVars, match_results_json, result, teams_with_series,
                  all_calendar_results, phase2Vars, cur >>

\* lines 351-367: save next_matches.json and calendar_results.json and return
\* next_matches; the other locals of find_next_matches end with the call.
\* The two debug files are not part of the state: a failed write of either
\* is printed and nothing reads them.
FNM_Save ==
  /\ UNCHANGED recoverVars
  /\ pc = "fnm_save"
  /\ pc' = "fetch_step2"
  /\ teams_with_series' = <<>>
  /\ cal_futures' = <<>>
  /\ all_calendar_results' = <<>>
  /\ cur' = 0
  /\ UNCHANGED << envVars, files, match_results_json, result, next_matches, phase2Vars, scrape_futures,
                  scraped_list, log >>

\* ------------------------------------ fetch_and_process_football_matches
\* What the truth test of next_matches decides (lines 662 and 377).
HasNextMatches(nm) == nm # <<>>

\* lines 662-667: step 2 only when step 1 returned a non-empty dict.
Fetch_Step2 ==
  /\ UNCHANGED recoverVars
  /\ pc = "fetch_step2"
  /\ IF HasNextMatches(next_matches)
       THEN /\ pc' = "fww_start"
            /\ UNCHANGED result
       ELSE /\ pc' = "done"
            /\ result' = [kind |-> "None", series |-> <<>>]
  /\ UNCHANGED << envVars, files, match_results_json, phase1Vars, phase2Vars, itemVars, log >>

\* ------------------------------------------------- find_where_to_watch
\* lines 399-406: teams_lookup, a dict name -> {image, serie} in roster order.
RECURSIVE BuildLookup(_, _)
BuildLookup(tws, d) ==
  IF tws = <<>> THEN d
  ELSE BuildLookup(Tail(tws),
         DictSet(d, Head(tws).team.name,
                 [image |-> Head(tws).team.image, serie |-> Head(tws).serie]))

\* teams_lookup.get(team, {}) with the defaults of the two .get calls.
LookupGet(lookup, team) ==
  IF team \in DictKeys(lookup) THEN lookup[DictGet(lookup, team)].value
  ELSE [image |-> None, serie |-> "Unknown"]

\* line 412: one empty list per series of the roster.
RECURSIVE EmptySeries(_, _)
EmptySeries(series_data, d) ==
  IF series_data = <<>> THEN d
  ELSE EmptySeries(Tail(series_data), DictSet(d, Head(series_data).serie, <<>>))

\* lines 420-427: one pair per team with a next match and an opponent.
TeamPairs(nm) ==
  LET with == SelectSeq(nm, LAMBDA e : ~e.value.isnone /\ e.value.opponent # None)
  IN [k \in 1..Len(with) |-> [team1 |-> with[k].key,
                              team2 |-> with[k].value.opponent,
                              datetime_brt |-> with[k].value.datetime_brt]]

\* A record that carries the opponent and the date only when the item succeeded.
MatchRecord_Blank(lookup, pair, channels, error) ==
  [name |-> pair.team1,
   image |-> LookupGet(lookup, pair.team1).image,
   matches |-> << [adversary |-> IF error = NoError THEN pair.team2 ELSE None,
                   datetime_brt |-> IF error = NoError THEN pair.datetime_brt ELSE None,
                   channels |-> channels] >>,
   error |-> error]

\* The record of a team with its one match.
MatchRecord(lookup, pair, channels, error) ==
  [name |-> pair.team1,
   image |-> LookupGet(lookup, pair.team1).image,
   matches |-> << [adversary |-> pair.team2,
                   datetime_brt |-> pair.datetime_brt,
                   channels |-> channels] >>,
   error |-> error]

\* An append that folds the match of [record] into a record the series
\* already holds for the same team.
AppendTo_Merge(pdbs, series_name, record) ==
  [k \in 1..Len(pdbs) |->
     IF pdbs[k].key # series_name THEN pdbs[k]
     ELSE IF \E r \in 1..Len(pdbs[k].value) : pdbs[k].value[r].name = record.name
       THEN [key |-> pdbs[k].key,
             value |-> [r \in 1..Len(pdbs[k].value) |->
                          IF pdbs[k].value[r].name = record.name
                            THEN [pdbs[k].value[r] EXCEPT !.matches = @ \o record.matches]
                            ELSE pdbs[k].value[r]]]
       ELSE [key |-> pdbs[k].key, value |-> Append(pdbs[k].value, record)]]

\* An assignment of [record] in place of the append.
AppendTo_Overwrite(pdbs, series_name, record) ==
  [k \in 1..Len(pdbs) |->
     IF pdbs[k].key = series_name
       THEN [key |-> pdbs[k].key, value |-> <<record>>]
       ELSE pdbs[k]]

\* processed_data_by_series[series_name].append(record)
AppendTo(pdbs, series_name, record) ==
  [k \in 1..Len(pdbs) |->
     IF pdbs[k].key = series_name
       THEN [key |-> pdbs[k].key, value |-> Append(pdbs[k].value, record)]
       ELSE pdbs[k]]

\* lines 377-406: the guard on next_matches, the roster and the lookup.
FWW_Start ==
  /\ UNCHANGED recoverVars
  /\ pc = "fww_start"
  /\ IF ~HasNextMatches(next_matches)
       THEN /\ pc' = "done"
            /\ result' = [kind |-> "data", series |-> <<>>]
            /\ UNCHANGED teams_lookup
     ELSE IF teams_json.state # "ok"
       THEN /\ pc' = "done"
            /\ result' = [kind |-> "None", series |-> <<>>]
            /\ UNCHANGED teams_lookup
     ELSE /\ teams_lookup' = BuildLookup(TeamsWithSeries(teams_json.data), <<>>)
          /\ pc' = "fww_setup"
          /\ UNCHANGED result
  /\ UNCHANGED << envVars, files, match_results_json, phase1Vars, team_pairs, watch_futures,
                  processed_data_by_series, all_watch_results, final_processed_data,
                  itemVars, log >>

\* lines 409-437: setup_agent, the empty series, the pairs, and one search
\* submitted per pair.
FWW_Submit ==
  /\ UNCHANGED recoverVars
  /\ pc = "fww_setup"
  /\ IF setup_agent(env.OPENAI_API_KEY)
       THEN /\ processed_data_by_series' = EmptySeries(teams_json.data, <<>>)
            /\ team_pairs' = TeamPairs(next_matches)
            /\ watch_futures' = [i \in 1..Len(team_pairs') |-> QueuedFuture]
            /\ log' = [log EXCEPT !.watch = [i \in 1..Len(team_pairs') |->
                          [subject |-> team_pairs'[i].team1, outcomes |-> <<>>]]]
            /\ pc' = "fww_loop"
       ELSE /\ pc' = "exited"
            /\ UNCHANGED << processed_data_by_series, team_pairs, watch_futures, log >>
  /\ UNCHANGED << envVars, files, match_results_json, result, phase1Vars, teams_lookup, all_watch_results,
                  final_processed_data, itemVars >>

\* The search worker takes the next queued where-to-watch search.
WatchWorkerStart(i) ==
  /\ UNCHANGED recoverVars
  /\ MayStart(watch_futures, i, SearchWidth)
  /\ watch_futures' = [watch_futures EXCEPT ![i].state = "running",
                                            ![i].search_calls = @ + 1]
  /\ UNCHANGED << envVars, files, match_results_json, pc, result, phase1Vars, teams_lookup, team_pairs,
                  processed_data_by_series, all_watch_results, final_processed_data,
                  itemVars, log >>

\* search_where_to_watch returns (or raises) in the worker.
WatchWorkerFinish(i) ==
  /\ UNCHANGED recoverVars
  /\ i \in 1..Len(watch_futures)
  /\ watch_futures[i].state = "running"
  /\ \E net \in NetOutcomes, body \in Bodies :
       watch_futures' = [watch_futures EXCEPT
         ![i].state = "done",
         ![i].value = search_where_to_watch(team_pairs[i].team1, team_pairs[i].team2,
                                            env.SERPER_API_KEY, net, body),
         ![i].net_calls = @ + search_serper_api(env.SERPER_API_KEY, net, body).net_calls,
         ![i].net = IF search_serper_api(env.SERPER_API_KEY, net, body).net_calls = 0
                      THEN "none" ELSE net]
  /\ UNCHANGED << envVars, files, match_results_json, pc, result, phase1Vars, teams_lookup, team_pairs,
                  processed_data_by_series, all_watch_results, final_processed_data,
                  itemVars, log >>

\* line 440: as_completed yields a finished future, or the loop ends.
FWW_NextFuture ==
  /\ UNCHANGED recoverVars
  /\ pc = "fww_loop"
  /\ IF AllTaken(watch_futures)
       THEN /\ pc' = "fww_aggregate"
            /\ UNCHANGED << cur, watch_futures >>
       ELSE \E i \in Completed(watch_futures) :
              /\ cur' = i
              /\ watch_futures' = [watch_futures EXCEPT ![i].taken = TRUE]
              /\ pc' = "fww_result"
  /\ UNCHANGED << envVars, files, match_results_json, result, phase1Vars, teams_lookup, team_pairs,
                  processed_data_by_series, all_watch_results, final_processed_data,
                  scrape_futures, scraped_list, log >>

\* The records the loop body appends for an item whose search future
\* raised, or whose search result could not be read (lines 582-593), and
\* for an item whose search failed (lines 452-465).
SearchErrorRecords(lookup, pair, search_result) ==
  IF search_result.raised \/ (~SearchFailed(search_result) /\ LinksToScrape(search_result) < 0)
    THEN << MatchRecord(lookup, pair, <<>>, <<"Search future failed: ", "exception">>) >>
  ELSE IF SearchFailed(search_result)
    THEN << MatchRecord(lookup, pair, <<>>, <<"Search failed: ", search_result.error>>) >>
  ELSE << >>

RECURSIVE AppendAll(_, _, _)
AppendAll(pdbs, series_name, records) ==
  IF records = <<>> THEN pdbs
  ELSE AppendAll(AppendTo(pdbs, series_name, Head(records)), series_name, Tail(records))

\* lines 441-476 and 582-593: the result of the search, and the scrape
\* fan-out.  An append to a series that is no key of
\* processed_data_by_series raises KeyError, in the handler too.
FWW_Result ==
  /\ UNCHANGED recoverVars
  /\ pc = "fww_result"
  /\ LET search_result == watch_futures[cur].value
         pair == team_pairs[cur]
         series_name == LookupGet(teams_lookup, pair.team1).serie
         n == LinksToScrape(search_result)
         records == SearchErrorRecords(teams_lookup, pair, search_result)
     IN /\ all_watch_results' = IF search_result.raised THEN all_watch_results
                                ELSE Append(all_watch_results, search_result)
        /\ IF records # <<>>
             THEN /\ log' = AddOutcome(log, "watch", cur,
                              IF search_result.raised \/ ~SearchFailed(search_result)
                                THEN "exception" ELSE "search_failed")
                  /\ IF series_name \in DictKeys(processed_data_by_series)
                       THEN /\ processed_data_by_series' =
                                 AppendAll(processed_data_by_series, series_name, records)
                            /\ pc' = "fww_loop"
                       ELSE /\ pc' = "crashed"
                            /\ UNCHANGED processed_data_by_series
                  /\ UNCHANGED << scrape_futures, watch_futures >>
             ELSE /\ scrape_futures' = [j \in 1..n |-> RunningScrape]
                  /\ watch_futures' = [watch_futures EXCEPT ![cur].scrape_calls = @ + n]
                  /\ pc' = IF n = 0 THEN "fww_agent" ELSE "fww_scrape"
                  /\ UNCHANGED << log, processed_data_by_series >>
  /\ scraped_list' = <<>>
  /\ UNCHANGED << envVars, files, match_results_json, result, phase1Vars, teams_lookup, team_pairs,
                  final_processed_data, cur >>

\* lines 477-481
FWW_CollectScrape ==
  /\ UNCHANGED recoverVars
  /\ pc = "fww_scrape"
  /\ \E j \in Completed(scrape_futures) : CollectScrape(j)
  /\ pc' = IF AllTaken(scrape_futures') THEN "fww_agent" ELSE "fww_scrape"
  /\ UNCHANGED << envVars, files, match_results_json, result, phase1Vars, phase2Vars, cur, log >>

ErrNoChannels == <<"Agent failed to return valid channels JSON">>
ErrNoOutput == <<"No agent output">>
ErrAgent == <<"Agent processing exception: ", "exception">>

\* A handler that also writes the diagnostic file when the extraction raised.
WatchStep_DumpOnRaise(agent_result) ==
  LET parsed == extract_json_from_response(agent_result.final_output) IN
  IF agent_result.raised
    THEN [outcome |-> "exception", channels |-> <<>>, error |-> ErrAgent, dump |-> FALSE]
  ELSE IF agent_result.final_output = <<>>
    THEN [outcome |-> "no_output", channels |-> <<>>, error |-> ErrNoOutput, dump |-> FALSE]
  ELSE IF parsed = RecursionError
    THEN [outcome |-> "exception", channels |-> <<>>, error |-> ErrAgent, dump |-> TRUE]
  ELSE IF Truthy(parsed) /\ isinstance_dict(parsed) /\ HasKey(parsed, "channels")
    THEN [outcome |-> "success", channels |-> ChannelsValue(parsed), error |-> NoError,
          dump |-> FALSE]
  ELSE [outcome |-> "malformed_output", channels |-> <<>>, error |-> ErrNoChannels,
        dump |-> TRUE]

\* lines 521-580: what the loop body does with the result of the agent.
\*   outcome  the branch reached
\*   channels, error  of the record the branch appends
\*   dump     whether watch_error_<team1>_vs_<team2>.txt is written next
WatchStep(agent_result) ==
  LET parsed == extract_json_from_response(agent_result.final_output) IN
  IF agent_result.raised
    THEN [outcome |-> "exception", channels |-> <<>>, error |-> ErrAgent, dump |-> FALSE]
  ELSE IF agent_result.final_output = <<>>
    THEN [outcome |-> "no_output", channels |-> <<>>, error |-> ErrNoOutput, dump |-> FALSE]
  ELSE IF parsed = RecursionError
    THEN [outcome |-> "exception", channels |-> <<>>, error |-> ErrAgent, dump |-> FALSE]
  ELSE IF Truthy(parsed) /\ isinstance_dict(parsed) /\ HasKey(parsed, "channels")
    THEN [outcome |-> "success", channels |-> ChannelsValue(parsed), error |-> NoError,
          dump |-> FALSE]
  ELSE [outcome |-> "malformed_output", channels |-> <<>>, error |-> ErrNoChannels,
        dump |-> TRUE]

\* The records lines 521-580 append for the item: the record of the branch
\* and, when the diagnostic file cannot be written, the record of the
\* handler of line 569 that the exception of open() lands in.
AgentRecords(lookup, pair, step, written) ==
  << MatchRecord(lookup, pair, step.channels, step.error) >>
    \o (IF step.dump /\ ~written THEN << MatchRecord(lookup, pair, <<>>, ErrAgent) >>
        ELSE << >>)

\* lines 483-580: the prompt, the one call of the agent, and its result.
\* written: whether the diagnostic file could be opened and written.
FWW_RunAgent ==
  /\ UNCHANGED recoverVars
  /\ pc = "fww_agent"
  /\ \E agent_result \in AgentResults(WatchTexts), written \in BOOLEAN :
       LET step == WatchStep(agent_result)
           pair == team_pairs[cur]
           series_name == LookupGet(teams_lookup, pair.team1).serie
           l2 == AddOutcome(log, "watch", cur, step.outcome)
       IN /\ files' = IF step.dump /\ written
                        THEN files \cup {[name |-> <<"watch_error", pair.team1, pair.team2>>,
                                          text |-> agent_result.final_output]}
                        ELSE files
          /\ log' = IF step.dump /\ ~written THEN AddOutcome(l2, "watch", cur, "exception")
                    ELSE l2
          /\ IF series_name \in DictKeys(processed_data_by_series)
               THEN /\ processed_data_by_series' =
                         AppendAll(processed_data_by_series, series_name,
                                   AgentRecords(teams_lookup, pair, step, written))
                    /\ pc' = "fww_loop"
               ELSE /\ pc' = "crashed"
                    /\ UNCHANGED processed_data_by_series
  /\ watch_futures' = [watch_futures EXCEPT ![cur].agent_calls = @ + 1]
  /\ scrape_futures' = <<>>
  /\ scraped_list' = <<>>
  /\ UNCHANGED << envVars, match_results_json, result, phase1Vars, teams_lookup, team_pairs,
                  all_watch_results, final_processed_data, cur >>

\* lines 597-608: every team of the lookup that has no record in its series
\* gets one with empty matches.
EmptyRecord(name, image) == [name |-> name, image |-> image, matches |-> <<>>, error |-> NoError]

AddTeamsWithoutMatches(pdbs, lookup) ==
  [k \in 1..Len(pdbs) |->
     LET names == {pdbs[k].value[r].name : r \in 1..Len(pdbs[k].value)}
         missing == SelectSeq(lookup, LAMBDA e : e.value.serie = pdbs[k].key /\ e.key \notin names)
     IN [key |-> pdbs[k].key,
         value |-> pdbs[k].value \o
                   [m \in 1..Len(missing) |-> EmptyRecord(missing[m].key, missing[m].value.image)]]]

\* lines 611-614: the series that have teams.
FinalData(pdbs) ==
  LET nonempty == SelectSeq(pdbs, LAMBDA e : e.value # <<>>)
  IN [k \in 1..Len(nonempty) |-> [name |-> nonempty[k].key, teams |-> nonempty[k].value]]

\* lines 597-614
FWW_Aggregate ==
  /\ UNCHANGED recoverVars
  /\ pc = "fww_aggregate"
  /\ processed_data_by_series' = AddTeamsWithoutMatches(processed_data_by_series, teams_lookup)
  /\ final_processed_data' = FinalData(processed_data_by_series')
  /\ pc' = "fww_persist"
  /\ UNCHANGED << envVars, files, match_results_json, result, phase1Vars, teams_lookup, team_pairs,
                  watch_futures, all_watch_results, itemVars, log >>

\* A return of None when the write failed.
PersistReturn_NoneOnFailure(final, written) ==
  IF written THEN [kind |-> "data", series |-> final]
  ELSE [kind |-> "None", series |-> <<>>]

\* What find_where_to_watch returns after the write of match_results.json
\* succeeded or failed (line 645).
PersistReturn(final, written) == [kind |-> "data", series |-> final]

\* lines 616-645: write match_results.json (the write may fail, which is
\* printed), save the debug file watch_results.json, and return
\* final_processed_data.
FWW_Persist ==
  /\ UNCHANGED recoverVars
  /\ pc = "fww_persist"
  /\ \E w1 \in BOOLEAN :
       /\ match_results_json' =
            [attempts |-> match_results_json.attempts + 1,
             written |-> w1,
             series |-> IF w1 THEN final_processed_data ELSE match_results_json.series]
       /\ result' = PersistReturn(final_processed_data, w1)
  /\ pc' = "done"
  /\ UNCHANGED << envVars, files, phase1Vars, teams_lookup, team_pairs, watch_futures,
                  processed_data_by_series, all_watch_results, final_processed_data,
                  itemVars, log >>

Next ==
  \/ FNM_LoadRoster
  \/ FNM_Submit
  \/ \E i \in 1..MaxTeams : CalWorkerStart(i)
  \/ \E i \in 1..MaxTeams : CalWorkerFinish(i)
  \/ FNM_NextFuture
  \/ FNM_Result
  \/ \E j \in 1..ScrapeWidth : ScrapeFinish(j)
  \/ FNM_CollectScrape
  \/ FNM_RunAgent
  \/ FNM_Save
  \/ Fetch_Step2
  \/ FWW_Start
  \/ FWW_Submit
  \/ \E i \in 1..MaxTeams : WatchWorkerStart(i)
  \/ \E i \in 1..MaxTeams : WatchWorkerFinish(i)
  \/ FWW_NextFuture
  \/ FWW_Result
  \/ FWW_CollectScrape
  \/ FWW_RunAgent
  \/ FWW_Aggregate
  \/ FWW_Persist

Spec == Init /\ [][Next]_vars

\* Every external call returns or raises and every thread that can run does:
\* a step is taken whenever one is possible.
SpecLive == Init /\ [][Next]_vars /\ WF_vars(Next)

\* ------------------------------- extract_json_from_response on its own
\* The tokens of the texts the function is called on.
RecoverTokens ==
  {"{", "}", "[", "]", FENCE, "json", " ", "w", "7", "ch:0", DEEP_OPEN, DEEP_CLOSE}

Texts == UNION {[1..n -> RecoverTokens] : n \in 0..MaxTextLen}

\* No run of the pipeline is under way.
PipelineIdle ==
  /\ env = [SERPER_API_KEY |-> TRUE, OPENAI_API_KEY |-> TRUE]
  /\ teams_json = [state |-> "missing", data |-> <<>>]
  /\ files = {}
  /\ match_results_json = [attempts |-> 0, written |-> FALSE, series |-> <<>>]
  /\ result = NoResult
  /\ teams_with_series = <<>>
  /\ cal_futures = <<>>
  /\ next_matches = <<>>
  /\ all_calendar_results = <<>>
  /\ teams_lookup = EmptyMap
  /\ team_pairs = <<>>
  /\ watch_futures = <<>>
  /\ processed_data_by_series = EmptyMap
  /\ all_watch_results = <<>>
  /\ final_processed_data = <<>>
  /\ cur = 0
  /\ scrape_futures = <<>>
  /\ scraped_list = <<>>
  /\ log = [cal |-> <<>>, watch |-> <<>>]

\* One call of the function on any text, outside a run of the pipeline.
InitRecover ==
  /\ PipelineIdle
  /\ pc = "recover"
  /\ text \in Texts
  /\ recovered = NotCalled
  /\ extracted = NotExtracted
  /\ teams_json_before = NotEdited

Recover_Call ==
  /\ pc = "recover"
  /\ recovered = NotCalled
  /\ recovered' = extract_json_from_response(text)
  /\ pc' = "recover_done"
  /\ UNCHANGED << envVars, files, match_results_json, result, phase1Vars, phase2Vars,
                  itemVars, log, text, extracted, teams_json_before >>

NextRecover == Recover_Call

SpecRecover == InitRecover /\ [][NextRecover]_vars

\* ------------------------------- the handling of one agent result on its own
\* The tokens of the final_output of the agent.
ExtractTokens ==
  {"{", "}", "[", "]", "w", "7", FENCE, DEEP_OPEN,
   "nm:X", "nm:null", "nm:str", "ch:2", "ch:0", "other"}

Outputs == UNION {[1..n -> ExtractTokens] : n \in 0..MaxOutputLen}

InitExtract ==
  /\ PipelineIdle
  /\ pc = "extract"
  /\ text \in Outputs
  /\ recovered = NotCalled
  /\ extracted = NotExtracted
  /\ teams_json_before = NotEdited

\* What the handling of the item ends in: the branch reached and, when the
\* diagnostic file of the branch cannot be written, the handler of the
\* exception after it.
StepOutcomes(step, written) ==
  IF step.dump /\ ~written THEN <<step.outcome, "exception">> ELSE <<step.outcome>>

\* lines 315-344 on the result of one agent call: Runner.run_sync raised, or
\* returned text as final_output.
Extract_Calendar ==
  /\ pc = "extract"
  /\ \E raised \in BOOLEAN, written \in BOOLEAN :
       LET step == CalendarStep([raised |-> raised, final_output |-> text]) IN
       extracted' = [phase |-> 1, raised |-> raised, written |-> written,
                     outcomes |-> StepOutcomes(step, written),
                     stored |-> step.store, data |-> step.info]
  /\ pc' = "extract_done"
  /\ UNCHANGED << envVars, files, match_results_json, result, phase1Vars, phase2Vars,
                  itemVars, log, text, recovered, teams_json_before >>

\* lines 521-580 on the result of one agent call.
Extract_Watch ==
  /\ pc = "extract"
  /\ \E raised \in BOOLEAN, written \in BOOLEAN :
       LET step == WatchStep([raised |-> raised, final_output |-> text]) IN
       extracted' = [phase |-> 2, raised |-> raised, written |-> written,
                     outcomes |-> StepOutcomes(step, written),
                     stored |-> TRUE, data |-> step.channels]
  /\ pc' = "extract_done"
  /\ UNCHANGED << envVars, files, match_results_json, result, phase1Vars, phase2Vars,
                  itemVars, log, text, recovered, teams_json_before >>

NextExtract == Extract_Calendar \/ Extract_Watch

SpecExtract == InitExtract /\ [][NextExtract]_vars

\* ------------------------------------------ teams.json rewritten in a run
\* teams.json with every team listed under series B.
Regrouped(n) ==
  << [serie |-> "A", teams |-> <<>>],
     [serie |-> "B", teams |-> [k \in 1..n |-> TeamObj(k)]] >>

\* What another process can leave in teams.json.
EditedRosterFiles ==
  RosterFiles \cup {[state |-> "ok", data |-> Regrouped(n)] : n \in 1..MaxTeams}

\* Another process rewrites or removes teams.json after find_next_matches
\* has returned and before find_where_to_watch opens the file (lines 387-396
\* open and parse teams.json a second time).
RosterEdit ==
  /\ pc = "fetch_step2"
  /\ teams_json_before = NotEdited
  /\ \E f \in EditedRosterFiles \ {teams_json} : teams_json' = f
  /\ teams_json_before' = teams_json
  /\ UNCHANGED << env, files, match_results_json, pc, result, phase1Vars, phase2Vars,
                  itemVars, log, text, recovered, extracted >>

NextRosterEdit ==
  \/ Next
  \/ RosterEdit

SpecRosterEdit == Init /\ [][NextRosterEdit]_vars


\* ================================================================ claims
RosterTeamNames ==
  IF teams_json.state # "ok" THEN {}
  ELSE {TeamsWithSeries(teams_json.data)[k].team.name :
          k \in 1..Len(TeamsWithSeries(teams_json.data))}

\* All team records of a grouped structure (a sequence of series).
AllRecords(series) == Flatten([k \in 1..Len(series) |-> series[k].teams])
ProcessedRecords ==
  Flatten([k \in 1..Len(processed_data_by_series) |-> processed_data_by_series[k].value])
RecordsOf(recs, name) == SelectSeq(recs, LAMBDA r : r.name = name)
CountName(recs, name) == Len(RecordsOf(recs, name))

AllFutures ==
  {cal_futures[i] : i \in 1..Len(cal_futures)}
    \cup {watch_futures[i] : i \in 1..Len(watch_futures)}

\* The loop body of phase 1 / phase 2 is at work on item i.
InBody1(i) == cur = i /\ pc \in {"fnm_result", "fnm_scrape", "fnm_agent"}
InBody2(i) == cur = i /\ pc \in {"fww_result", "fww_scrape", "fww_agent"}

\* C1: at the end of every run of fetch_and_process_football_matches, every
\* team of the roster appears exactly once across all series of the final
\* output.
C1_EveryTeamExactlyOnce ==
  pc = "done" =>
    \A t \in RosterTeamNames :
      result.kind = "data" /\ CountName(AllRecords(result.series), t) = 1

\* C2: when the loop over the team pairs of find_where_to_watch has ended,
\* processed_data_by_series holds exactly one record per submitted pair.
C2_OneOutcomePerPair ==
  pc = "fww_aggregate" =>
    /\ Len(ProcessedRecords) = Len(team_pairs)
    /\ \A i \in 1..Len(team_pairs) : CountName(ProcessedRecords, team_pairs[i].team1) = 1

\* C3: an exception in the loop body of one item never leaves the loop, every
\* item has its outcome when the loop ends, and the body of one item changes
\* neither the outcome nor the stored result of any other item.
C3_State ==
  /\ pc # "crashed"
  /\ pc = "fnm_save" => \A i \in 1..Len(cal_futures) : log.cal[i].outcomes # <<>>
  /\ pc = "fww_aggregate" =>
       \A i \in 1..Len(team_pairs) :
         /\ log.watch[i].outcomes # <<>>
         /\ CountName(ProcessedRecords, team_pairs[i].team1) >= 1

C3_Frame ==
  /\ \A i \in 1..Len(log.cal) : log'.cal[i] # log.cal[i] => InBody1(i)
  /\ \A i \in 1..Len(log.watch) : log'.watch[i] # log.watch[i] => InBody2(i)
  /\ \A k \in 1..Len(next_matches) :
       /\ Len(next_matches') >= Len(next_matches)
       /\ (next_matches'[k] # next_matches[k] =>
             \E i \in 1..Len(teams_with_series) :
               InBody1(i) /\ teams_with_series[i].team.name = next_matches[k].key)
  /\ pc \in {"fww_result", "fww_scrape", "fww_agent"} =>
       \A i \in 1..Len(team_pairs) :
         i # cur => RecordsOf(ProcessedRecords', team_pairs[i].team1)
                      = RecordsOf(ProcessedRecords, team_pairs[i].team1)

C3_FailureIsolated == [](C3_State) /\ [][C3_Frame]_vars

\* One pair ended in the exception handler and another has its success
\* record, untouched.
C3_Witness ==
  /\ pc = "fww_aggregate"
  /\ \E i, j \in 1..Len(team_pairs) :
       /\ i # j
       /\ log.watch[i].outcomes # <<>>
       /\ log.watch[i].outcomes[Len(log.watch[i].outcomes)] = "exception"
       /\ log.watch[j].outcomes = <<"success">>
       /\ \E r \in 1..Len(ProcessedRecords) :
            /\ ProcessedRecords[r].name = team_pairs[j].team1
            /\ ProcessedRecords[r].error = NoError

\* C4: when step 1 resolved no opponent for any team, no where-to-watch
\* search, scrape or agent call is made, and the artifact is still written,
\* listing every roster team with empty matches.
C4_AllEmptyArtifact ==
  (/\ pc = "done"
   /\ log.cal # <<>>
   /\ \A k \in 1..Len(next_matches) :
        next_matches[k].value.isnone \/ next_matches[k].value.opponent = None)
  => /\ watch_futures = <<>>
     /\ match_results_json.attempts = 1
     /\ result.kind = "data"
     /\ \A t \in RosterTeamNames :
          /\ CountName(AllRecords(result.series), t) = 1
          /\ \A r \in 1..Len(AllRecords(result.series)) :
               AllRecords(result.series)[r].name = t
                 => AllRecords(result.series)[r].matches = <<>>

\* C5: every item failure of step 1 or step 2 gives the team a record in
\* the final output that carries an error string.
FailureOutcomes == {"search_failed", "no_output", "malformed_output", "exception"}

Failed(entry) ==
  \E n \in 1..Len(entry.outcomes) : entry.outcomes[n] \in FailureOutcomes

HasErrorRecord(name) ==
  /\ result.kind = "data"
  /\ \E r \in 1..Len(AllRecords(result.series)) :
       /\ AllRecords(result.series)[r].name = name
       /\ AllRecords(result.series)[r].error # NoError

C5_FailureCarriesError ==
  pc = "done" =>
    /\ \A i \in 1..Len(log.cal) : Failed(log.cal[i]) => HasErrorRecord(log.cal[i].subject)
    /\ \A i \in 1..Len(log.watch) : Failed(log.watch[i]) => HasErrorRecord(log.watch[i].subject)

\* C6: for an item whose search returned an error, no scrape and no agent
\* call is ever made, and the loop body ends at once with the outcome
\* search_failed.
SearchErrorHandled(futures, entries, inBody) ==
  \A i \in 1..Len(futures) :
    (futures[i].state = "done" /\ ~futures[i].value.raised /\ futures[i].value.error # None)
      => /\ futures[i].scrape_calls = 0
         /\ futures[i].agent_calls = 0
         /\ (inBody[i] => pc \in {"fnm_result", "fww_result"})
         /\ ((futures[i].taken /\ ~inBody[i]) => entries[i].outcomes = <<"search_failed">>)
         /\ (~futures[i].taken => entries[i].outcomes = <<>>)

C6_NoCallAfterSearchError ==
  /\ SearchErrorHandled(cal_futures, log.cal, [i \in 1..Len(cal_futures) |-> InBody1(i)])
  /\ SearchErrorHandled(watch_futures, log.watch, [i \in 1..Len(watch_futures) |-> InBody2(i)])

\* A pair whose search failed has its outcome, with no call made for it.
C6_Witness ==
  \E i \in 1..Len(watch_futures) :
    /\ watch_futures[i].value.error # None
    /\ watch_futures[i].taken
    /\ log.watch[i].outcomes = <<"search_failed">>
    /\ watch_futures[i].net_calls = 1

\* C7 (as stated): no call is repeated, and the agent is run exactly once for
\* each item whose search succeeded.
NoCallRepeated ==
  /\ \A f \in AllFutures :
       f.search_calls <= 1 /\ f.net_calls <= 1 /\ f.agent_calls <= 1
         /\ f.scrape_calls <= ScrapeWidth
  /\ \A j \in 1..Len(scrape_futures) : scrape_futures[j].scrape_calls <= 1
  /\ Len(scrape_futures) <= ScrapeWidth

SearchSucceeded(f) == f.state = "done" /\ ~f.value.raised /\ f.value.error = None

C7_AgentExactlyOnce ==
  /\ NoCallRepeated
  /\ \A i \in 1..Len(cal_futures) :
       (SearchSucceeded(cal_futures[i]) /\ log.cal[i].outcomes # <<>>)
         => cal_futures[i].agent_calls = 1
  /\ \A i \in 1..Len(watch_futures) :
       (SearchSucceeded(watch_futures[i]) /\ log.watch[i].outcomes # <<>>)
         => watch_futures[i].agent_calls = 1

\* C7 (amended): no call is repeated; the agent is run at most once per item,
\* exactly once for each item whose search succeeded and whose payload the
\* loop body could read, and never for an item whose loop body ended before
\* the call (search error, exception before the call).
AgentCallsAsReached(futures, entries) ==
  \A i \in 1..Len(futures) :
    entries[i].outcomes # <<>> =>
      futures[i].agent_calls =
        (IF SearchSucceeded(futures[i]) /\ futures[i].value.data.type = "dict" THEN 1 ELSE 0)

C7_NoRetry ==
  /\ NoCallRepeated
  /\ AgentCallsAsReached(cal_futures, log.cal)
  /\ AgentCallsAsReached(watch_futures, log.watch)

\* An item whose agent call gave no valid output has ended with one call.
C7_Witness ==
  \E i \in 1..Len(watch_futures) :
    /\ log.watch[i].outcomes \in {<<"no_output">>, <<"malformed_output">>, <<"exception">>}
    /\ watch_futures[i].agent_calls = 1
    /\ watch_futures[i].scrape_calls = ScrapeWidth
    /\ pc = "fww_aggregate"

\* C8 (as stated): with a credential missing, no per-item processing takes
\* place: no search is submitted and the run does not go past setup.
C8_MissingCredentialAborts ==
  (~env.SERPER_API_KEY \/ ~env.OPENAI_API_KEY) =>
    /\ cal_futures = <<>> /\ watch_futures = <<>>
    /\ log.cal = <<>>

\* C8 (amended): a missing OPENAI_API_KEY aborts the run in setup_agent,
\* before any search is submitted; with a missing SERPER_API_KEY no network
\* call, scrape or agent call is made either, but the run is not aborted:
\* every submitted search ends as a search error.
C8_MissingCredential ==
  /\ ~env.OPENAI_API_KEY =>
       /\ cal_futures = <<>> /\ watch_futures = <<>> /\ log.cal = <<>>
       /\ pc \in {"start", "fnm_setup", "fetch_step2", "done", "exited"}
       /\ (pc \in {"fetch_step2", "done"} => RosterTeamNames = {})
  /\ ~env.SERPER_API_KEY =>
       /\ \A f \in AllFutures :
            /\ f.net_calls = 0 /\ f.scrape_calls = 0 /\ f.agent_calls = 0
            /\ f.state = "done" => f.value.error = ErrNoKey
       /\ scrape_futures = <<>>
       /\ \A i \in 1..Len(log.cal) : log.cal[i].outcomes \in {<<>>, <<"search_failed">>}
       /\ (env.OPENAI_API_KEY => pc \notin {"exited", "crashed"})

\* The run stopped in setup_agent.
C8_Witness == ~env.OPENAI_API_KEY /\ pc = "exited" /\ RosterTeamNames # {}

\* C9: search_serper_api makes no network call without the key and returns
\* the error of the key; with the key it makes exactly one call, returns an
\* error for a transport failure, an HTTP error status or any other
\* exception, and the parsed body on success; it never raises.
SearchAsSpecified(f) ==
  f.state = "done" =>
    IF ~env.SERPER_API_KEY
      THEN f.net_calls = 0 /\ f.net = "none" /\ ~f.value.raised /\ f.value.error = ErrNoKey
      ELSE /\ f.net_calls = 1
           /\ f.net \in {"transport", "http"} =>
                ~f.value.raised /\ f.value.error = ErrRequest /\ f.value.data = NoBody
           /\ f.net = "unexpected" =>
                ~f.value.raised /\ f.value.error = ErrUnexpected /\ f.value.data = NoBody
           /\ f.net = "ok" =>
                /\ f.value.error = None
                /\ f.value.raised \/ f.value.data \in Bodies

C9_SearchEnvelope == \A f \in AllFutures : SearchAsSpecified(f)

\* With the key set, one search got an HTTP error and another a body, each
\* with one network call.
C9_Witness ==
  /\ env.SERPER_API_KEY
  /\ Len(cal_futures) = 2
  /\ cal_futures[1].net = "http" /\ cal_futures[1].value.error = ErrRequest
  /\ cal_futures[2].net = "ok" /\ cal_futures[2].value.data.type = "dict"
  /\ cal_futures[1].net_calls = 1 /\ cal_futures[2].net_calls = 1

\* C10: match_results.json is written at most once; when the write fails the
\* run still ends, returns the data it built, and keeps that data.
C10_PersistFailure ==
  /\ match_results_json.attempts <= 1
  /\ (pc = "done" /\ match_results_json.attempts = 1) =>
       /\ result = [kind |-> "data", series |-> final_processed_data]
       /\ final_processed_data = FinalData(processed_data_by_series)
       /\ match_results_json.written => match_results_json.series = result.series
       /\ ~match_results_json.written => match_results_json.series = <<>>

\* The write failed and the run returned its non-empty data.
C10_Witness ==
  /\ pc = "done"
  /\ match_results_json.attempts = 1
  /\ ~match_results_json.written
  /\ result.kind = "data"
  /\ result.series # <<>>

\* ------------------------------------------------ claims on the recovery
\* A token sequence without whitespace is a JSON text.
RECURSIVE IsJSON(_)
IsJSON(t) ==
  \/ Len(t) = 1 /\ t[1] \in NumTokens
  \/ t = <<"{", "}">>
  \/ Len(t) = 3 /\ t[1] = "{" /\ t[2] \in MemberTokens /\ t[3] = "}"
  \/ t = <<"[", "]">>
  \/ t = <<DEEP_OPEN, DEEP_CLOSE>>
  \/ Len(t) >= 3 /\ t[1] = "[" /\ t[Len(t)] = "]" /\ IsJSON(SubSeq(t, 2, Len(t) - 1))

ValidLiteral(s) == IsJSON(NoWs(s))

IsValue(v) == v.type \in {"num", "dict", "list"}

Called == recovered # NotCalled

\* The inner text of the one fenced block of a text with exactly two fences,
\* the tag json left out.
FencePositions == {p \in 1..Len(text) : text[p] = FENCE}
OneBlock == Cardinality(FencePositions) = 2
InnerText ==
  LET i == SetMin(FencePositions)
      j == SetMax(FencePositions)
      c == IF i + 1 < j /\ text[i + 1] = "json" THEN i + 2 ELSE i + 1
  IN SubSeq(text, c, j - 1)

\* The first entry of a sequence of candidates that is a JSON text.
FirstValid(ms) ==
  IF \E k \in 1..Len(ms) : ValidLiteral(ms[k])
    THEN ms[SetMin({k \in 1..Len(ms) : ValidLiteral(ms[k])})]
    ELSE <<>>

\* C11: the strategies are applied in strict order and the first success is
\* returned: a text that is a JSON literal gives its value; else the first
\* fenced block that holds a JSON literal gives the value (so a lone fenced
\* block with prose around it gives its inner value); else the longest
\* brace or bracket match that is a JSON literal gives the value.
C11_StrictOrder ==
  Called =>
    LET blocks == CodeBlocks(text, 1)
        braces == SortByLenDesc(BraceMatches(text, 1))
    IN /\ ValidLiteral(text) =>
            IsValue(recovered) /\ (~StartsDeep(NoWs(text)) => recovered = json_loads(text))
       /\ (OneBlock /\ ValidLiteral(InnerText)) =>
            IsValue(recovered)
              /\ (~StartsDeep(NoWs(InnerText)) => recovered = json_loads(InnerText))
       /\ (~ValidLiteral(text) /\ FirstValid(blocks) # <<>>) =>
            IsValue(recovered)
              /\ (~StartsDeep(NoWs(FirstValid(blocks)))
                    => recovered = json_loads(FirstValid(blocks)))
       /\ (~ValidLiteral(text) /\ FirstValid(blocks) = <<>> /\ FirstValid(braces) # <<>>) =>
            IsValue(recovered)
              /\ (~StartsDeep(NoWs(FirstValid(braces)))
                    => recovered = json_loads(FirstValid(braces)))

\* C12: a text with no JSON literal anywhere in it (no run of its tokens is
\* one), the empty text included, gives None, and the call does not raise.
NoJSONAnywhere ==
  \A i, j \in 1..Len(text) : i <= j => ~ValidLiteral(SubSeq(text, i, j))

C12_NullNeverRaises ==
  (Called /\ NoJSONAnywhere) => recovered = ParsedNone

\* --------------------------------------------- claims on the two phases
\* Phase 1 ended with success for the team of item i and stored an opponent.
ResolvedOpponent(i) ==
  /\ log.cal[i].outcomes = <<"success">>
  /\ \E k \in 1..Len(next_matches) :
       /\ next_matches[k].key = log.cal[i].subject
       /\ ~next_matches[k].value.isnone
       /\ next_matches[k].value.opponent # None

PairsOf(name) == SelectSeq(team_pairs, LAMBDA pr : pr.team1 = name)

\* C13: at the end of a run, a team has a pair if and only if phase 1 ended
\* with success and an opponent for it, no team has two pairs, and every
\* team without a resolved opponent has a record with empty matches in the
\* output.
C13_DerivePairs ==
  (pc = "done" /\ log.cal # <<>>) =>
    \A i \in 1..Len(log.cal) :
      /\ Len(PairsOf(log.cal[i].subject)) = (IF ResolvedOpponent(i) THEN 1 ELSE 0)
      /\ ~ResolvedOpponent(i) =>
           /\ result.kind = "data"
           /\ \E r \in 1..Len(AllRecords(result.series)) :
                /\ AllRecords(result.series)[r].name = log.cal[i].subject
                /\ AllRecords(result.series)[r].matches = <<>>

\* The stage of the pipeline the main thread is in.
Stage(p) ==
  CASE p = "start" -> 0
    [] p \in {"fnm_setup", "fnm_loop", "fnm_result", "fnm_scrape", "fnm_agent", "fnm_save"} -> 1
    [] p \in {"fetch_step2", "fww_start", "fww_setup"} -> 2
    [] p \in {"fww_loop", "fww_result", "fww_scrape", "fww_agent"} -> 3
    [] p = "fww_aggregate" -> 4
    [] p = "fww_persist" -> 5
    [] OTHER -> 6

HasOutcome(entries) == \A i \in 1..Len(entries) : entries[i].outcomes # <<>>

C14_State ==
  /\ Stage(pc) < 2 => watch_futures = <<>> /\ team_pairs = <<>>
  /\ watch_futures # <<>> => HasOutcome(log.cal)
  /\ Stage(pc) >= 2 => HasOutcome(log.cal)
  /\ Stage(pc) < 4 =>
       final_processed_data = <<>> /\ match_results_json.attempts = 0
  /\ (Stage(pc) \in {4, 5} \/ match_results_json.attempts > 0) =>
       /\ HasOutcome(log.watch)
       /\ \A i \in 1..Len(watch_futures) :
            watch_futures[i].state = "done" /\ watch_futures[i].taken

\* C14: the main thread only moves forward through the stages; no
\* where-to-watch search exists before every calendar item has its outcome,
\* and the aggregation and the write of match_results.json come only after
\* every pair has its outcome.
C14_ForwardBarriers == [](C14_State) /\ [][Stage(pc') >= Stage(pc)]_vars

\* A where-to-watch search runs after phase 1 ended with one failed and one
\* successful item.
C14_Witness ==
  /\ Len(log.cal) = 2
  /\ log.cal[1].outcomes = <<"search_failed">>
  /\ log.cal[2].outcomes = <<"success">>
  /\ \E i \in 1..Len(watch_futures) : watch_futures[i].state = "running"

Running(futures) == {i \in 1..Len(futures) : futures[i].state = "running"}

\* C15: at most one search call is in flight and at most 3 scrape calls,
\* all of them of the one item the loop body is at work on.
C15_InFlight ==
  /\ Cardinality(Running(cal_futures)) + Cardinality(Running(watch_futures)) <= 1
  /\ Cardinality(Running(scrape_futures)) <= 3
  /\ Running(scrape_futures) # {} =>
       /\ pc \in {"fnm_scrape", "fww_scrape"}
       /\ pc = "fnm_scrape" => cal_futures[cur].taken
       /\ pc = "fww_scrape" => watch_futures[cur].taken

\* The search of the second item runs while the three scrapes of the first
\* are in flight.
C15_Witness ==
  /\ Cardinality(Running(scrape_futures)) = 3
  /\ Cardinality(Running(watch_futures)) = 1
  /\ pc = "fww_scrape"

\* A worker moved: the state of a submitted future changed.
WorkerStep ==
  \/ \E i \in 1..Min(Len(cal_futures), Len(cal_futures')) :
       cal_futures'[i].state # cal_futures[i].state
  \/ \E i \in 1..Min(Len(watch_futures), Len(watch_futures')) :
       watch_futures'[i].state # watch_futures[i].state
  \/ \E j \in 1..Min(Len(scrape_futures), Len(scrape_futures')) :
       scrape_futures'[j].state # scrape_futures[j].state

CollectionsChange ==
  << next_matches, all_calendar_results, processed_data_by_series, all_watch_results,
     scraped_list >>' #
  << next_matches, all_calendar_results, processed_data_by_series, all_watch_results,
     scraped_list >>

\* C16: the result collections are changed by the steps of the main thread
\* only, never by a step of a search worker or a scrape worker.
C16_SingleWriter == [][CollectionsChange => ~WorkerStep]_vars

\* The main thread has appended the results of two scrapes while the search
\* worker is at work on the next pair.
C16_Witness ==
  /\ pc = "fww_scrape"
  /\ Len(scraped_list) = 2
  /\ Running(scrape_futures) # {}
  /\ Running(watch_futures) # {}
  /\ all_watch_results # <<>>

\* The search future of the item the loop body is at work on.
CurFuture == IF Stage(pc) = 1 THEN cal_futures[cur] ELSE watch_futures[cur]

Returned(futures) == {j \in 1..Len(futures) : ~futures[j].value.raised}

\* C17: for an item with k links, the first min(k, 3) links are scraped, one
\* call each; the agent is not called before every scrape has finished, and
\* the list that goes into the prompt holds the results of the scrapes that
\* returned, whatever the others did.
C17_ScrapeSubPhase ==
  pc \in {"fnm_scrape", "fww_scrape", "fnm_agent", "fww_agent"} =>
    LET k == CurFuture.value.data.organic
        n == IF k < 3 THEN k ELSE 3
    IN /\ Len(scrape_futures) = n
       /\ CurFuture.scrape_calls = n
       /\ \A j \in 1..n : scrape_futures[j].scrape_calls = 1
       /\ \A j \in 1..n : scrape_futures[j].state = "done" => scrape_futures[j].value.url = j
       /\ CurFuture.agent_calls = 0
       /\ pc \in {"fnm_agent", "fww_agent"} =>
            /\ \A j \in 1..n : scrape_futures[j].state = "done" /\ scrape_futures[j].taken
            /\ Len(scraped_list) = Cardinality(Returned(scrape_futures))
            /\ {scraped_list[m] : m \in 1..Len(scraped_list)}
                 = {scrape_futures[j].value : j \in Returned(scrape_futures)}

\* Of three scrapes one raised; the agent is about to be called with the
\* results of the other two.
C17_Witness ==
  /\ pc = "fww_agent"
  /\ Len(scrape_futures) = 3
  /\ CurFuture.value.data.organic > 3
  /\ Cardinality(Returned(scrape_futures)) = 2
  /\ Len(scraped_list) = 2

\* ------------------------------------- claims on the handling of a result
\* The top-level key the recovered value has, "" when it has neither.
TopKey(v) ==
  IF v.type = "dict" /\ v.member \in {"nm:X", "nm:Y", "nm:noopp", "nm:null", "nm:str"}
    THEN "next_match"
  ELSE IF v.type = "dict" /\ v.member \in {"ch:2", "ch:0"} THEN "channels"
  ELSE ""

RequiredKey == IF extracted.phase = 1 THEN "next_match" ELSE "channels"

\* The data the recovered value holds under the required key.
DataOf(v) ==
  CASE v.member = "nm:X" -> [isnone |-> FALSE, opponent |-> "X", datetime_brt |-> "d1"]
    [] v.member = "nm:null" -> [isnone |-> TRUE, opponent |-> None, datetime_brt |-> None]
    [] v.member = "ch:2" -> <<"Globo", "Premiere">>
    [] OTHER -> <<>>

\* C18: for an agent call that returned, the outcome is no_output when the
\* output is empty, malformed_output when the recovery gives None or a value
\* without the required key, and success with the data of the recovered
\* value in every other case in which no exception occurred.
C18_StatusOfResult ==
  (extracted # NotExtracted /\ ~extracted.raised) =>
    LET v == extract_json_from_response(text) IN
    /\ text = <<>> => extracted.outcomes = <<"no_output">>
    /\ (text # <<>> /\ v # RecursionError /\ TopKey(v) # RequiredKey) =>
         /\ Head(extracted.outcomes) = "malformed_output"
         /\ extracted.written => extracted.outcomes = <<"malformed_output">>
    /\ (text # <<>> /\ TopKey(v) = RequiredKey) =>
         /\ extracted.outcomes \in {<<"success">>, <<"exception">>}
         /\ extracted.outcomes = <<"success">> =>
              extracted.stored /\ extracted.data = DataOf(v)
         /\ extracted.outcomes = <<"exception">> => v.member = "nm:str"
    /\ extracted.outcomes = <<"success">> => TopKey(v) = RequiredKey

\* Output with prose around the object was handled in phase 2 and gave the
\* two channels.
C18_Witness ==
  /\ extracted # NotExtracted
  /\ extracted.phase = 2
  /\ ~extracted.raised
  /\ Len(text) = 4 /\ text[1] = "w"
  /\ extracted.outcomes = <<"success">>
  /\ extracted.data = <<"Globo", "Premiere">>

\* ------------------------------------------------- claims on termination
Ended == pc \in {"done", "exited"}

SomeItemFailed ==
  \/ \E i \in 1..Len(log.cal) : Failed(log.cal[i])
  \/ \E i \in 1..Len(log.watch) : Failed(log.watch[i])

\* C19: when every call returns or raises, the run ends, and it ends also
\* after the failure of an item.
C19_Terminates == <>Ended /\ (SomeItemFailed ~> Ended)

\* The run ended after a failed item in each phase.
C19_Witness ==
  /\ pc = "done"
  /\ \E i \in 1..Len(log.cal) : Failed(log.cal[i])
  /\ \E i \in 1..Len(log.watch) : Failed(log.watch[i])

\* ------------------------------------------------ claims on the roster
RosterUnreadable == teams_json.state \in {"missing", "undecodable"}

C20_State ==
  RosterUnreadable =>
    /\ pc \in {"start", "fetch_step2", "done"}
    /\ cal_futures = <<>> /\ watch_futures = <<>> /\ scrape_futures = <<>>
    /\ log = [cal |-> <<>>, watch |-> <<>>]
    /\ match_results_json.attempts = 0
    /\ files = {}
    /\ pc = "done" => result.kind = "None"

\* C20: with teams.json missing or undecodable the run ends with no search,
\* scrape or agent call and no file written, and the file is read once: the
\* main thread never returns to the load.
C20_RosterHardStop ==
  [](C20_State) /\ [][pc' # "start" /\ (RosterUnreadable => Stage(pc') > Stage(pc))]_vars

\* The run ended on an undecodable teams.json.
C20_Witness == teams_json.state = "undecodable" /\ pc = "done" /\ result.kind = "None"

\* ------------------------------------------------------------ claims C21-C24
\* The content of teams.json that find_next_matches read.
Phase1Roster == IF teams_json_before = NotEdited THEN teams_json ELSE teams_json_before

\* find_where_to_watch has read teams.json and built its lookup.
Phase2HasRoster ==
  pc \in {"fww_setup", "fww_loop", "fww_result", "fww_scrape", "fww_agent",
          "fww_aggregate", "fww_persist", "crashed"}

\* C21: the roster is loaded once per run: every team submitted in phase 1 is
\* found, with the same category and the same image, in the roster that
\* phase 2 and the aggregation use, even if teams.json changes during the run.
C21_OneSnapshot ==
  Phase2HasRoster =>
    \A i \in 1..Len(log.cal) :
      /\ log.cal[i].subject \in DictKeys(teams_lookup)
      /\ LookupGet(teams_lookup, log.cal[i].subject)
           = LookupGet(BuildLookup(TeamsWithSeries(Phase1Roster.data), <<>>),
                       log.cal[i].subject)

\* Every team record of the aggregation and of what the run gave.
EveryRecord ==
  {ProcessedRecords[r] : r \in 1..Len(ProcessedRecords)}
    \cup {AllRecords(final_processed_data)[r] : r \in 1..Len(AllRecords(final_processed_data))}
    \cup {AllRecords(result.series)[r] : r \in 1..Len(AllRecords(result.series))}
    \cup {AllRecords(match_results_json.series)[r] :
            r \in 1..Len(AllRecords(match_results_json.series))}

\* C22: in every state of the aggregation and in the final output, every
\* team record has no entry or one entry in its matches sequence, whatever
\* the outcomes of phase 1 and of phase 2.
C22_AtMostOneMatch == \A rec \in EveryRecord : Len(rec.matches) \in {0, 1}

\* The final output holds a record with one match and a record with none,
\* and the handling of one pair went through two failure branches.
C22_Witness ==
  /\ pc = "done"
  /\ result.kind = "data"
  /\ \E r, q \in 1..Len(AllRecords(result.series)) :
       /\ Len(AllRecords(result.series)[r].matches) = 1
       /\ Len(AllRecords(result.series)[q].matches) = 0
  /\ \E i \in 1..Len(log.watch) : Len(log.watch[i].outcomes) = 2

\* What phase 1 stored for a team: next_matches[name].
Phase1Match(name) == next_matches[DictGet(next_matches, name)].value

\* The entry of a record agrees with what phase 1 stored for its team.
KeepsPhase1(rec) ==
  /\ rec.name \in DictKeys(next_matches)
  /\ Len(rec.matches) = 1
  /\ rec.matches[1].adversary = Phase1Match(rec.name).opponent
  /\ rec.matches[1].datetime_brt = Phase1Match(rec.name).datetime_brt

\* C23: phase 2 never changes what phase 1 resolved: a record with a match,
\* at any time, has the adversary and the datetime phase 1 stored for its
\* team, and in the final output every team with a derived pair has a record
\* whose single match entry carries them, whatever the outcome of phase 2
\* for the pair.
C23_Phase1Kept ==
  /\ \A rec \in EveryRecord : rec.matches # <<>> => KeepsPhase1(rec)
  /\ (pc = "done" /\ result.kind = "data") =>
       \A i \in 1..Len(TeamPairs(next_matches)) :
         /\ RecordsOf(AllRecords(result.series), TeamPairs(next_matches)[i].team1) # <<>>
         /\ \A r \in 1..Len(AllRecords(result.series)) :
              AllRecords(result.series)[r].name = TeamPairs(next_matches)[i].team1
                => KeepsPhase1(AllRecords(result.series)[r])

\* The final output holds the records of two pairs with different
\* adversaries, one handled with success and one ended in a failure branch.
C23_Witness ==
  /\ pc = "done"
  /\ result.kind = "data"
  /\ Len(team_pairs) = 2
  /\ team_pairs[1].team2 # team_pairs[2].team2
  /\ \E i, j \in 1..2 :
       /\ log.watch[i].outcomes = <<"success">>
       /\ log.watch[j].outcomes # <<>>
       /\ log.watch[j].outcomes[1] \in FailureOutcomes
  /\ \A i \in 1..2 : RecordsOf(AllRecords(result.series), team_pairs[i].team1) # <<>>

\* The name of the diagnostic file of item i of phase 1 and of phase 2.
CalDump(i) == <<"calendar_error", log.cal[i].subject>>
WatchDump(i) == <<"watch_error", team_pairs[i].team1, team_pairs[i].team2>>
Dumped(name) == \E f \in files : f.name = name

\* C24: the raw text the agent returned for an item is kept, in the
\* diagnostic file of the item, only when the outcome of the item is
\* malformed_output: an item with another outcome has no such file, and the
\* run keeps no other file with the text of the agent.
C24_RawTextOnlyMalformed ==
  /\ \A i \in 1..Len(log.cal) :
       Dumped(CalDump(i)) => log.cal[i].outcomes = <<"malformed_output">>
  /\ \A i \in 1..Len(log.watch) :
       Dumped(WatchDump(i)) => log.watch[i].outcomes = <<"malformed_output">>
  /\ \A f \in files :
       \/ /\ \E i \in 1..Len(log.cal) : f.name = CalDump(i)
          /\ f.text # <<>>
          /\ CalendarStep([raised |-> FALSE, final_output |-> f.text]).outcome
               = "malformed_output"
       \/ /\ \E i \in 1..Len(log.watch) : f.name = WatchDump(i)
          /\ f.text # <<>>
          /\ WatchStep([raised |-> FALSE, final_output |-> f.text]).outcome
               = "malformed_output"

\* Both phases wrote the diagnostic file of a malformed item, and the item
\* of phase 1 that succeeded and an item that ended in the exception handler
\* have none.
C24_Witness ==
  /\ pc = "done"
  /\ \E i, j \in 1..Len(log.cal) :
       /\ Dumped(CalDump(i))
       /\ log.cal[j].outcomes = <<"success">>
       /\ ~Dumped(CalDump(j))
  /\ \E i \in 1..Len(log.watch) : Dumped(WatchDump(i))

====
